---------------------------- MODULE Spec2Model ----------------------------
(***************************************************************************)
(* DeepClaude: the DeepSeek stream adapter (DeepSeekClient.stream_chat)    *)
(* and the dual-stream composition built on it.                            *)
(*                                                                         *)
(* Text is a sequence of one-character strings, so that `"<think>" in s`   *)
(* is a real substring search.  A transport chunk is a sequence of wire    *)
(* tokens: the token granularity is the place where a transport delivery   *)
(* may cut the byte stream.                                                *)
(***************************************************************************)
EXTENDS Integers, Sequences, FiniteSets, TLC

(***************************************************************************)
(* Bounds of the model.                                                    *)
(***************************************************************************)
\* the number of chunks one stream_chat call consumes in the model
MaxChunks == 3
\* the number of events the second adapter delivers in the model
MaxSecond == 2

(***************************************************************************)
(* Text literals.                                                          *)
(***************************************************************************)
ThinkOpen  == <<"<", "t", "h", "i", "n", "k", ">">>
ThinkClose == <<"<", "/", "t", "h", "i", "n", "k", ">">>
TxtStepOne == <<"s", "t", "e", "p", " ", "o", "n", "e">>
TxtAnswer  == <<"a", "n", "s", "w", "e", "r">>
TxtBecause == <<"b", "e", "c", "a", "u", "s", "e">>
Txt42      == <<"4", "2">>
\* "<think>x</think>": both markers in one fragment
TxtBoth    == ThinkOpen \o <<"x">> \o ThinkClose
Empty      == <<>>

\* `needle in hay` of Python, for strings
Contains(hay, needle) ==
    \E i \in 1..(Len(hay) - Len(needle) + 1) :
        SubSeq(hay, i, i + Len(needle) - 1) = needle

(***************************************************************************)
(* JSON values of a delta's field, as dict.get sees them.                  *)
(***************************************************************************)
Absent == [p |-> "absent", s |-> Empty]
Null   == [p |-> "null", s |-> Empty]
Str(t) == [p |-> "str", s |-> t]

\* `if delta.get(k):` of Python: a non-empty string
Truthy(v) == v.p = "str" /\ v.s # Empty
\* `delta.get(k) is None`: the key is missing or holds null
IsNone(v) == v.p \in {"absent", "null"}

Delta(rc, c) == [rc |-> rc, c |-> c]
NoDelta == Delta(Absent, Absent)
\* `data["choices"][0].get("delta")` is truthy: the delta dict is not empty
DeltaTruthy(d) == d # NoDelta

\* an emitted (content type, content) pair
Ev(t, s) == [type |-> t, text |-> s]

(***************************************************************************)
(* Wire tokens and event lines.                                            *)
(***************************************************************************)
Tok(k)  == [k |-> k, d |-> NoDelta]
\* `{"choices":[{"delta":{...}` up to the closing brackets
Open(d) == [k |-> "open", d |-> d]

DeltaLine(d)  == <<Tok("data"), Open(d), Tok("close"), Tok("nl")>>
DoneLine      == <<Tok("data"), Tok("done"), Tok("nl")>>
\* an SSE comment / keep-alive line, no "data: " prefix, holding one two-byte
\* UTF-8 character (bytes u1 u2)
CommentLine   == <<Tok("ping"), Tok("u1"), Tok("u2"), Tok("nl")>>
\* "data: {oops": not JSON
BadLine       == <<Tok("data"), Tok("junk"), Tok("nl")>>
\* "data: 5": JSON, not an object
NumLine       == <<Tok("data"), Tok("num"), Tok("nl")>>
\* "data: {"choices": []}"
NoChoicesLine == <<Tok("data"), Tok("nochoices"), Tok("nl")>>

(***************************************************************************)
(* chunk.decode("utf-8"): a lead byte must be followed by its continuation *)
(* byte inside the same chunk, else UnicodeDecodeError.                    *)
(***************************************************************************)
Utf8Valid(chunk) ==
    \A i \in 1..Len(chunk) :
        /\ chunk[i].k = "u1" => (i < Len(chunk) /\ chunk[i + 1].k = "u2")
        /\ chunk[i].k = "u2" => (i > 1 /\ chunk[i - 1].k = "u1")

RECURSIVE DecodeChars(_)
DecodeChars(chunk) ==
    IF chunk = <<>> THEN <<>>
    ELSE IF chunk[1].k = "u1"
         THEN <<Tok("char")>> \o DecodeChars(SubSeq(chunk, 3, Len(chunk)))
         ELSE <<chunk[1]>> \o DecodeChars(Tail(chunk))

Decode(chunk) ==
    IF Utf8Valid(chunk) THEN [ok |-> TRUE, s |-> DecodeChars(chunk)]
    ELSE [ok |-> FALSE, s |-> <<>>]

\* str.splitlines()
FirstNl(s) ==
    IF \E i \in 1..Len(s) : s[i].k = "nl"
    THEN CHOOSE i \in 1..Len(s) : s[i].k = "nl" /\ \A j \in 1..(i - 1) : s[j].k # "nl"
    ELSE 0

RECURSIVE SplitLines(_)
SplitLines(s) ==
    IF s = <<>> THEN <<>>
    ELSE LET i == FirstNl(s)
         IN IF i = 0 THEN <<s>>
            ELSE <<SubSeq(s, 1, i - 1)>> \o SplitLines(SubSeq(s, i + 1, Len(s)))

\* line.startswith("data: ")
StartsWithData(line) == Len(line) >= 1 /\ line[1].k = "data"

(***************************************************************************)
(* json.loads(json_str): "event" is an object with one choice carrying a   *)
(* delta, "nochoices" an object whose choices are empty, "num" a JSON      *)
(* value that is no object; anything else raises JSONDecodeError.          *)
(***************************************************************************)
JsonLoads(js) ==
    IF Len(js) = 2 /\ js[1].k = "open" /\ js[2].k = "close"
    THEN [ok |-> TRUE, kind |-> "event", d |-> js[1].d]
    ELSE IF Len(js) = 1 /\ js[1].k \in {"num", "nochoices"}
    THEN [ok |-> TRUE, kind |-> js[1].k, d |-> NoDelta]
    ELSE [ok |-> FALSE, kind |-> "error", d |-> NoDelta]

(***************************************************************************)
(* DeepSeekClient._process_think_tag_content                               *)
(***************************************************************************)
process_think_tag_content(content) ==
    LET has_start == Contains(content, ThinkOpen)
        has_end   == Contains(content, ThinkClose)
    IN IF has_start /\ has_end THEN <<TRUE, content>>
       ELSE IF has_start THEN <<FALSE, content>>
       ELSE IF ~has_start /\ ~has_end THEN <<FALSE, content>>
       ELSE <<TRUE, content>>

(***************************************************************************)
(* The classifier: one delta, in native mode and in tag-inference mode.    *)
(* s is [inside, acc]; the result adds the events yielded.                 *)
(***************************************************************************)
\* NativeDelta with a slip: a delta that carries both fields yields both
NativeDelta_Both(s, d) ==
    [inside |-> s.inside, acc |-> s.acc,
     ev |-> (IF Truthy(d.rc) THEN <<Ev("reasoning", d.rc.s)>> ELSE <<>>)
            \o (IF Truthy(d.c) THEN <<Ev("content", d.c.s)>> ELSE <<>>)]

NativeDelta(s, d) ==
    [inside |-> s.inside, acc |-> s.acc,
     ev |-> (IF Truthy(d.rc) THEN <<Ev("reasoning", d.rc.s)>> ELSE <<>>)
            \o (IF IsNone(d.rc) /\ Truthy(d.c)
                THEN <<Ev("content", d.c.s)>> ELSE <<>>)]

\* TagDelta with a slip: the closing fragment yields no synthetic ("content", "")
TagDelta_NoBoundary(s, d) ==
    IF ~Truthy(d.c) THEN [inside |-> s.inside, acc |-> s.acc, ev |-> <<>>]
    ELSE LET content == d.c.s
             accumulated == s.acc \o content
         IN IF Contains(content, ThinkOpen) /\ ~s.inside
            THEN [inside |-> TRUE, acc |-> accumulated,
                  ev |-> <<Ev("reasoning", content)>>]
            ELSE IF s.inside
            THEN IF Contains(content, ThinkClose)
                 THEN [inside |-> FALSE, acc |-> Empty,
                       ev |-> <<Ev("reasoning", content)>>]
                 ELSE [inside |-> TRUE, acc |-> accumulated,
                       ev |-> <<Ev("reasoning", content)>>]
            ELSE [inside |-> FALSE, acc |-> accumulated,
                  ev |-> <<Ev("content", content)>>]

\* TagDelta with a slip: a buffer holding a complete tag pair is yielded as
\* content, whatever the state
TagDelta_CompleteAsContent(s, d) ==
    IF ~Truthy(d.c) THEN [inside |-> s.inside, acc |-> s.acc, ev |-> <<>>]
    ELSE LET content == d.c.s
             accumulated == s.acc \o content
             processed == process_think_tag_content(content)
         IN IF processed[1] /\ Contains(content, ThinkOpen)
            THEN [inside |-> FALSE, acc |-> Empty,
                  ev |-> <<Ev("content", processed[2])>>]
            ELSE IF Contains(content, ThinkOpen) /\ ~s.inside
            THEN [inside |-> TRUE, acc |-> accumulated,
                  ev |-> <<Ev("reasoning", content)>>]
            ELSE IF s.inside
            THEN IF Contains(content, ThinkClose)
                 THEN [inside |-> FALSE, acc |-> Empty,
                       ev |-> <<Ev("reasoning", content), Ev("content", Empty)>>]
                 ELSE [inside |-> TRUE, acc |-> accumulated,
                       ev |-> <<Ev("reasoning", content)>>]
            ELSE [inside |-> FALSE, acc |-> accumulated,
                  ev |-> <<Ev("content", content)>>]

\* TagDelta with a slip: the markers are looked for in the buffer
TagDelta_BufferDetect(s, d) ==
    IF ~Truthy(d.c) THEN [inside |-> s.inside, acc |-> s.acc, ev |-> <<>>]
    ELSE LET content == d.c.s
             accumulated == s.acc \o content
         IN IF Contains(accumulated, ThinkOpen) /\ ~s.inside
            THEN [inside |-> TRUE, acc |-> accumulated,
                  ev |-> <<Ev("reasoning", content)>>]
            ELSE IF s.inside
            THEN IF Contains(accumulated, ThinkClose)
                 THEN [inside |-> FALSE, acc |-> Empty,
                       ev |-> <<Ev("reasoning", content), Ev("content", Empty)>>]
                 ELSE [inside |-> TRUE, acc |-> accumulated,
                       ev |-> <<Ev("reasoning", content)>>]
            ELSE [inside |-> FALSE, acc |-> accumulated,
                  ev |-> <<Ev("content", content)>>]

\* TagDelta with a slip: the buffer is kept at the closing marker
TagDelta_NoReset(s, d) ==
    IF ~Truthy(d.c) THEN [inside |-> s.inside, acc |-> s.acc, ev |-> <<>>]
    ELSE LET content == d.c.s
             accumulated == s.acc \o content
         IN IF Contains(content, ThinkOpen) /\ ~s.inside
            THEN [inside |-> TRUE, acc |-> accumulated,
                  ev |-> <<Ev("reasoning", content)>>]
            ELSE IF s.inside
            THEN IF Contains(content, ThinkClose)
                 THEN [inside |-> FALSE, acc |-> accumulated,
                       ev |-> <<Ev("reasoning", content), Ev("content", Empty)>>]
                 ELSE [inside |-> TRUE, acc |-> accumulated,
                       ev |-> <<Ev("reasoning", content)>>]
            ELSE [inside |-> FALSE, acc |-> accumulated,
                  ev |-> <<Ev("content", content)>>]

\* TagDelta with a slip: an empty fragment is forwarded as content
TagDelta_ForwardsEmpty(s, d) ==
    IF d.c.p # "str" THEN [inside |-> s.inside, acc |-> s.acc, ev |-> <<>>]
    ELSE LET content == d.c.s
             accumulated == s.acc \o content
         IN IF Contains(content, ThinkOpen) /\ ~s.inside
            THEN [inside |-> TRUE, acc |-> accumulated,
                  ev |-> <<Ev("reasoning", content)>>]
            ELSE IF s.inside
            THEN IF Contains(content, ThinkClose)
                 THEN [inside |-> FALSE, acc |-> Empty,
                       ev |-> <<Ev("reasoning", content), Ev("content", Empty)>>]
                 ELSE [inside |-> TRUE, acc |-> accumulated,
                       ev |-> <<Ev("reasoning", content)>>]
            ELSE [inside |-> FALSE, acc |-> accumulated,
                  ev |-> <<Ev("content", content)>>]

\* TagDelta with a slip: once _process_think_tag_content finds the buffer
\* complete, the buffer is yielded as content and the think block is left
TagDelta_UsesProcessed(s, d) ==
    IF ~Truthy(d.c) THEN [inside |-> s.inside, acc |-> s.acc, ev |-> <<>>]
    ELSE LET content == d.c.s
             accumulated == s.acc \o content
             processed == process_think_tag_content(accumulated)
         IN IF processed[1]
            THEN [inside |-> FALSE, acc |-> Empty,
                  ev |-> <<Ev("content", processed[2])>>]
            ELSE IF Contains(content, ThinkOpen) /\ ~s.inside
            THEN [inside |-> TRUE, acc |-> accumulated,
                  ev |-> <<Ev("reasoning", content)>>]
            ELSE IF s.inside
            THEN IF Contains(content, ThinkClose)
                 THEN [inside |-> FALSE, acc |-> Empty,
                       ev |-> <<Ev("reasoning", content), Ev("content", Empty)>>]
                 ELSE [inside |-> TRUE, acc |-> accumulated,
                       ev |-> <<Ev("reasoning", content)>>]
            ELSE [inside |-> FALSE, acc |-> accumulated,
                  ev |-> <<Ev("content", content)>>]

TagDelta(s, d) ==
    IF ~Truthy(d.c) THEN [inside |-> s.inside, acc |-> s.acc, ev |-> <<>>]
    ELSE LET content == d.c.s
             accumulated == s.acc \o content
             processed == process_think_tag_content(accumulated)
         IN IF Contains(content, ThinkOpen) /\ ~s.inside
            THEN [inside |-> TRUE, acc |-> accumulated,
                  ev |-> <<Ev("reasoning", content)>>]
            ELSE IF s.inside
            THEN IF Contains(content, ThinkClose)
                 THEN [inside |-> FALSE, acc |-> Empty,
                       ev |-> <<Ev("reasoning", content), Ev("content", Empty)>>]
                 ELSE [inside |-> TRUE, acc |-> accumulated,
                       ev |-> <<Ev("reasoning", content)>>]
            ELSE [inside |-> FALSE, acc |-> accumulated,
                  ev |-> <<Ev("content", content)>>]

\* ClassifyDelta with a slip: in native mode the content text goes through
\* the tag-inference state machine
ClassifyDelta_Mixed(mode, s, d) ==
    IF mode /\ Truthy(d.rc) THEN NativeDelta(s, d) ELSE TagDelta(s, d)

ClassifyDelta(mode, s, d) == IF mode THEN NativeDelta(s, d) ELSE TagDelta(s, d)

(***************************************************************************)
(* One line of a chunk.  ctl: "next" goes on to the next line, "return"    *)
(* ends the generator ([DONE]), "raise" is an exception raised inside the  *)
(* try block.                                                              *)
(***************************************************************************)
\* ProcessLine with a slip: no test for the [DONE] sentinel, which json.loads
\* rejects
ProcessLine_NoDone(mode, s, line) ==
    LET same(ctl) == [inside |-> s.inside, acc |-> s.acc, ev |-> <<>>, ctl |-> ctl]
    IN IF ~StartsWithData(line) THEN same("next")
       ELSE LET json_str == Tail(line)
                data == JsonLoads(json_str)
            IN IF ~data.ok THEN same("raise")
               ELSE IF data.kind = "num" THEN same("raise")
               ELSE IF data.kind = "nochoices" THEN same("next")
               ELSE IF ~DeltaTruthy(data.d) THEN same("next")
               ELSE LET r == ClassifyDelta(mode, s, data.d)
                    IN [inside |-> r.inside, acc |-> r.acc, ev |-> r.ev,
                        ctl |-> "next"]

ProcessLine(mode, s, line) ==
    LET same(ctl) == [inside |-> s.inside, acc |-> s.acc, ev |-> <<>>, ctl |-> ctl]
    IN IF ~StartsWithData(line) THEN same("next")
       ELSE LET json_str == Tail(line)
                data == JsonLoads(json_str)
            IN IF json_str = <<Tok("done")>> THEN same("return")
               ELSE IF ~data.ok THEN same("raise")
               ELSE IF data.kind = "num" THEN same("raise")
               ELSE IF data.kind = "nochoices" THEN same("next")
               ELSE IF ~DeltaTruthy(data.d) THEN same("next")
               ELSE LET r == ClassifyDelta(mode, s, data.d)
                    IN [inside |-> r.inside, acc |-> r.acc, ev |-> r.ev,
                        ctl |-> "next"]

\* the for loop over the lines of one chunk, inside the try block
RECURSIVE RunLines(_, _, _)
RunLines(mode, s, lines) ==
    IF lines = <<>>
    THEN [inside |-> s.inside, acc |-> s.acc, ev |-> <<>>, ctl |-> "next"]
    ELSE LET r == ProcessLine(mode, s, Head(lines))
         IN IF r.ctl # "next" THEN r
            ELSE LET rest == RunLines(mode, [inside |-> r.inside, acc |-> r.acc],
                                      Tail(lines))
                 IN [inside |-> rest.inside, acc |-> rest.acc,
                     ev |-> r.ev \o rest.ev, ctl |-> rest.ctl]

(***************************************************************************)
(* One iteration of `async for chunk in self._make_request(...)`.          *)
(* ctl: "next" (the loop goes on, also after a caught exception),          *)
(* "return" ([DONE]) or "unicode" (decode raised outside the try block).   *)
(***************************************************************************)
ProcessChunk(mode, s, chunk) ==
    LET dec == Decode(chunk)
    IN IF ~dec.ok
       THEN [inside |-> s.inside, acc |-> s.acc, ev |-> <<>>, ctl |-> "unicode"]
       ELSE LET r == RunLines(mode, s, SplitLines(dec.s))
            IN [inside |-> r.inside, acc |-> r.acc, ev |-> r.ev,
                ctl |-> IF r.ctl = "raise" THEN "next" ELSE r.ctl]

\* a whole stream_chat call on a given sequence of chunks, source exhausted
RECURSIVE RunChunks(_, _, _)
RunChunks(mode, s, cs) ==
    IF cs = <<>>
    THEN [inside |-> s.inside, acc |-> s.acc, ev |-> <<>>, ctl |-> "closed"]
    ELSE LET r == ProcessChunk(mode, s, Head(cs))
         IN IF r.ctl # "next" THEN r
            ELSE LET rest == RunChunks(mode, [inside |-> r.inside, acc |-> r.acc],
                                       Tail(cs))
                 IN [inside |-> rest.inside, acc |-> rest.acc,
                     ev |-> r.ev \o rest.ev, ctl |-> rest.ctl]

Fresh == [inside |-> FALSE, acc |-> Empty]

(***************************************************************************)
(* The chunks the upstream source delivers in the model.                   *)
(***************************************************************************)
NativeDeltas ==
    { Delta(Str(TxtBecause), Absent),
      Delta(Null, Str(Txt42)),
      Delta(Absent, Str(Txt42)),
      Delta(Str(Empty), Str(Txt42)),
      Delta(Str(TxtBecause), Str(Txt42)),
      Delta(Null, Str(ThinkOpen)),
      Delta(Absent, Str(Empty)) }

TagDeltas ==
    { Delta(Absent, Str(ThinkOpen)),
      Delta(Absent, Str(TxtStepOne)),
      Delta(Absent, Str(ThinkClose)),
      Delta(Absent, Str(TxtAnswer)),
      Delta(Absent, Str(TxtBoth)),
      Delta(Str(TxtBecause), Str(TxtAnswer)),
      Delta(Absent, Str(Empty)) }

Deltas(mode) == IF mode THEN NativeDeltas ELSE TagDeltas

OtherLines == {DoneLine, CommentLine, BadLine, NumLine, NoChoicesLine}

Lines(mode) == {DeltaLine(d) : d \in Deltas(mode)} \cup OtherLines

\* the delta a chunk of two lines starts or ends with
PairDelta(mode) ==
    IF mode THEN Delta(Str(TxtBecause), Absent) ELSE Delta(Absent, Str(ThinkOpen))
PairSecond(mode) ==
    IF mode THEN Delta(Null, Str(Txt42)) ELSE Delta(Absent, Str(TxtStepOne))

TwoLineChunks(mode) ==
    LET a == DeltaLine(PairDelta(mode))
        b == DeltaLine(PairSecond(mode))
    IN { a \o b, BadLine \o b, BadLine \o a, a \o BadLine, DoneLine \o b }

\* deliveries that cut an event line or a character in two
SplitChunks(mode) ==
    LET b == DeltaLine(PairSecond(mode))
    IN { SubSeq(b, 1, 2), SubSeq(b, 3, 4),
         SubSeq(CommentLine, 1, 2), SubSeq(CommentLine, 3, 4) }

Chunks(mode) ==
    {l : l \in Lines(mode)} \cup TwoLineChunks(mode) \cup SplitChunks(mode)

(***************************************************************************)
(* Deliveries of one event line each: keep-alives, marker literals cut in  *)
(* two, marker literals in native mode, reasoning_content in tag mode.     *)
(***************************************************************************)
\* "<think>" and "</think>" cut after "thi"
TxtOpenHead  == <<"<", "t", "h", "i">>
TxtCloseHead == <<"<", "/", "t", "h", "i">>
TxtMarkTail  == <<"n", "k", ">">>

\* lines that carry no text: `{"choices":[{"delta":{}}]}`, a delta whose
\* fields are null, a delta whose content is ""
KeepAliveLines ==
    { CommentLine, NoChoicesLine, DeltaLine(NoDelta), DeltaLine(Delta(Null, Null)),
      DeltaLine(Delta(Absent, Str(Empty))) }

FragmentDeltas(mode) ==
    IF mode
    THEN { Delta(Str(TxtBecause), Absent),
           Delta(Null, Str(Txt42)),
           Delta(Str(TxtBecause), Str(Txt42)),
           Delta(Null, Str(ThinkOpen)),
           Delta(Null, Str(ThinkClose)),
           Delta(Str(ThinkOpen), Null) }
    ELSE { Delta(Absent, Str(ThinkOpen)),
           Delta(Absent, Str(TxtStepOne)),
           Delta(Absent, Str(ThinkClose)),
           Delta(Absent, Str(TxtOpenHead)),
           Delta(Absent, Str(TxtCloseHead)),
           Delta(Absent, Str(TxtMarkTail)),
           Delta(Str(TxtBecause), Str(TxtAnswer)),
           Delta(Str(TxtBecause), Absent) }

FragmentChunks(mode) ==
    {DeltaLine(d) : d \in FragmentDeltas(mode)} \cup KeepAliveLines \cup {DoneLine}

(***************************************************************************)
(* The composition orchestrator (streaming mode): what it makes of a       *)
(* sequence of first-adapter events.                                       *)
(***************************************************************************)
IsReasoning(e) == e.type = "reasoning"

RECURSIVE ConcatText(_)
ConcatText(evs) ==
    IF evs = <<>> THEN Empty ELSE Head(evs).text \o ConcatText(Tail(evs))

\* a client-visible event: kind is "reasoning", "marker", "content" or "error"
Cl(kind, text) == [kind |-> kind, text |-> text]

RECURSIVE ToClient(_)
ToClient(evs) ==
    IF evs = <<>> THEN <<>>
    ELSE <<Cl("reasoning", Head(evs).text)>> \o ToClient(Tail(evs))

\* reasoning events pass to the client verbatim as they arrive
ForwardReasoning(evs) == ToClient(SelectSeq(evs, IsReasoning))

\* PhaseMarker with a slip: the switch is not surfaced
PhaseMarker_None == <<>>

\* the one normalized phase-changed marker delivered at the switch
PhaseMarker == <<Cl("marker", Empty)>>

\* ErrorEvent with a slip: the stream just stops
ErrorEvent_None == <<>>

\* the terminal error event
ErrorEvent == <<Cl("error", Empty)>>

\* the second adapter's content events as the client sees them
RECURSIVE ToContent(_)
ToContent(ts) ==
    IF ts = <<>> THEN <<>>
    ELSE <<Cl("content", Head(ts))>> \o ToContent(Tail(ts))

\* the messages of the client request
OriginalMessages == "messages"

\* SecondPrompt with a slip: the reasoning text is left out
SecondPrompt_NoReasoning(messages, acc) == [messages |-> messages, reasoning |-> Empty]

\* the prompt of the second request: the original messages plus the
\* accumulated reasoning text
SecondPrompt(messages, acc) == [messages |-> messages, reasoning |-> acc]

\* the one composed result of non-streaming mode
ComposedResult(r, c) == [kind |-> "result", reasoningText |-> r, contentText |-> c]

\* `return {"error": str(e)}`: what the caller of a failed call gets
ErrorResult == [kind |-> "error", reasoningText |-> Empty, contentText |-> Empty]

\* what the second adapter streams
SecondTexts == {TxtAnswer, Txt42}

\* the chunks the first adapter's source delivers under the orchestrator
OrchChunks(mode) ==
    IF mode
    THEN { DeltaLine(Delta(Str(TxtBecause), Absent)),
           DeltaLine(Delta(Null, Str(Txt42))), DoneLine, BadLine,
           SubSeq(CommentLine, 1, 2) }
    ELSE { DeltaLine(Delta(Absent, Str(ThinkOpen))),
           DeltaLine(Delta(Absent, Str(TxtStepOne))),
           DeltaLine(Delta(Absent, Str(ThinkClose))),
           DeltaLine(Delta(Absent, Str(TxtAnswer))), DoneLine }

(***************************************************************************)
(* The outbound request of a stream_chat call, built from the call's mode  *)
(* and the client's system_config.                                         *)
(***************************************************************************)
\* a key of system_config, as dict.get sees it
NoKey    == [p |-> "absent", b |-> FALSE, n |-> 0]
Flag(b)  == [p |-> "bool", b |-> b, n |-> 0]
Num(n)   == [p |-> "int", b |-> FALSE, n |-> n]

\* `system_config or {}`
EmptyConfig == [save_deepseek_tokens |-> NoKey,
                save_deepseek_tokens_max_tokens |-> NoKey]

SystemConfigs ==
    { EmptyConfig,
      [save_deepseek_tokens |-> Flag(TRUE), save_deepseek_tokens_max_tokens |-> NoKey],
      [save_deepseek_tokens |-> Flag(TRUE), save_deepseek_tokens_max_tokens |-> Num(3)],
      [save_deepseek_tokens |-> Flag(FALSE), save_deepseek_tokens_max_tokens |-> Num(3)] }

\* the default of self.system_config.get("save_deepseek_tokens_max_tokens", 5)
DefaultMaxTokens == 5

\* self.system_config.get("save_deepseek_tokens", False), as `if` reads it
SaveDeepseekTokens(cfg) ==
    cfg.save_deepseek_tokens.p = "bool" /\ cfg.save_deepseek_tokens.b

\* self.system_config.get("save_deepseek_tokens_max_tokens", 5)
max_tokens_limit(cfg) ==
    IF cfg.save_deepseek_tokens_max_tokens.p = "absent" THEN Num(DefaultMaxTokens)
    ELSE cfg.save_deepseek_tokens_max_tokens

\* BuildRequest with a slip: the mode is not looked at
BuildRequest_AnyMode(mode, cfg) ==
    [model |-> "model", messages |-> "messages", stream |-> TRUE,
     max_tokens |-> IF SaveDeepseekTokens(cfg) THEN max_tokens_limit(cfg)
                    ELSE NoKey]

\* the dict `data` handed to self._make_request
BuildRequest(mode, cfg) ==
    [model |-> "model", messages |-> "messages", stream |-> TRUE,
     max_tokens |-> IF mode /\ SaveDeepseekTokens(cfg) THEN max_tokens_limit(cfg)
                    ELSE NoKey]

\* the calls that run at the same time on one client
CallIds == {1, 2}

\* the chunks each call may consume
MaxCallChunks == 2

\* the chunks the source of such a call delivers
CallChunks(mode) ==
    IF mode
    THEN { DeltaLine(Delta(Str(TxtBecause), Absent)),
           DeltaLine(Delta(Null, Str(Txt42))), DoneLine }
    ELSE { DeltaLine(Delta(Absent, Str(ThinkOpen))),
           DeltaLine(Delta(Absent, Str(TxtStepOne))),
           DeltaLine(Delta(Absent, Str(ThinkClose))), DoneLine }

(***************************************************************************)
(* API-key check of the HTTP endpoints.                                    *)
(***************************************************************************)
BearerPrefix == <<"B", "e", "a", "r", "e", "r", " ">>

\* the configured key, api_keys.allow_api_key
ALLOW_API_KEY == <<"s", "k">>

\* str.replace(old, ""): the occurrences of old, found left to right without
\* overlap, are removed
RECURSIVE Remove(_, _)
Remove(s, old) ==
    IF Len(s) < Len(old) THEN s
    ELSE IF SubSeq(s, 1, Len(old)) = old
         THEN Remove(SubSeq(s, Len(old) + 1, Len(s)), old)
         ELSE <<Head(s)>> \o Remove(Tail(s), old)

IsSpace(ch) == ch \in {" ", "\t"}

\* str.strip()
RECURSIVE LStrip(_)
LStrip(s) == IF s # <<>> /\ IsSpace(Head(s)) THEN LStrip(Tail(s)) ELSE s
RECURSIVE RStrip(_)
RStrip(s) ==
    IF s # <<>> /\ IsSpace(s[Len(s)]) THEN RStrip(SubSeq(s, 1, Len(s) - 1)) ELSE s
Strip(s) == RStrip(LStrip(s))

Passed == [raised |-> FALSE, status_code |-> 200, detail |-> "ok"]
HTTPException(code, detail) == [raised |-> TRUE, status_code |-> code, detail |-> detail]

\* verify_api_key with a slip: the value is compared as it came
verify_api_key_NoStrip(authorization) ==
    IF authorization.p = "absent"
    THEN HTTPException(401, "Missing Authorization header")
    ELSE LET api_key == Remove(authorization.s, BearerPrefix)
         IN IF api_key # ALLOW_API_KEY
            THEN HTTPException(401, "Invalid API key")
            ELSE Passed

verify_api_key(authorization) ==
    IF authorization.p = "absent"
    THEN HTTPException(401, "Missing Authorization header")
    ELSE LET api_key == Strip(Remove(authorization.s, BearerPrefix))
         IN IF api_key # ALLOW_API_KEY
            THEN HTTPException(401, "Invalid API key")
            ELSE Passed

\* the routes of main.py and whether they depend on verify_api_key
Endpoints == {"/", "/v1/models", "/v1/chat/completions"}
Protected(endpoint) == endpoint \in {"/", "/v1/chat/completions"}

\* what a request gets: the dependency runs first, the handler only if the
\* dependency did not raise
Serve(endpoint, authorization) ==
    LET check == IF Protected(endpoint) THEN verify_api_key(authorization) ELSE Passed
    IN [endpoint |-> endpoint, authorization |-> authorization,
        status_code |-> check.status_code, handler_ran |-> ~check.raised]

\* Authorization headers of the requests
AuthHeaders ==
    { Absent,
      Str(Empty),
      Str(ALLOW_API_KEY),
      Str(BearerPrefix \o ALLOW_API_KEY),
      Str(BearerPrefix \o <<" ">> \o ALLOW_API_KEY \o <<" ", "\t">>),
      Str(BearerPrefix \o BearerPrefix \o ALLOW_API_KEY),
      Str(ALLOW_API_KEY \o <<" ">> \o BearerPrefix),
      Str(<<"s">> \o BearerPrefix \o <<"k">>),
      Str(<<"B", "e", "a", "r">> \o BearerPrefix \o <<"e", "r", " ">> \o ALLOW_API_KEY),
      Str(<<"b", "e", "a", "r", "e", "r", " ">> \o ALLOW_API_KEY),
      Str(BearerPrefix \o <<"s", "k", "x">>),
      Str(BearerPrefix \o <<"s", " ", "k">>),
      Str(BearerPrefix) }

\* the requests served in a run
MaxRequests == 2

(***************************************************************************)
(* Configuration: the dict held by AppConfig and by ConfigManager, and the *)
(* configuration file.  A dict keeps its keys in insertion order, so it is *)
(* a sequence of key/value entries with distinct keys.                     *)
(***************************************************************************)
Aliases == {"", "a", "b"}
ModelNames == {"m1", "m2"}

Entry(k, v) == [k |-> k, v |-> v]
Keys(m) == { m[i].k : i \in 1..Len(m) }

\* m[k] = v with a slip: the entry is always added at the end
SetItem_Appends(m, k, v) == Append(m, Entry(k, v))

\* m[k] = v
SetItem(m, k, v) ==
    IF k \in Keys(m)
    THEN [i \in 1..Len(m) |-> IF m[i].k = k THEN Entry(k, v) ELSE m[i]]
    ELSE Append(m, Entry(k, v))

\* del m[k]
DelItemTest(e, k) == e.k # k
DelItem(m, k) == SelectSeq(m, LAMBDA e : DelItemTest(e, k))

\* m.get(k, default)
GetItem(m, k, default) ==
    IF k \in Keys(m) THEN (CHOOSE e \in { m[i] : i \in 1..Len(m) } : e.k = k).v
    ELSE default

\* a configuration: the settings sections taken as one value ("none" when the
\* dict has none), and the "model_mappings" section when the key is present
Config(settings, has_mappings, mappings) ==
    [settings |-> settings, has_mappings |-> has_mappings, mappings |-> mappings]
EmptyDict == Config("none", FALSE, <<>>)

\* dict equality of Python: the same keys with the same values, in any order
AsMap(m) == { <<m[i].k, m[i].v>> : i \in 1..Len(m) }
ConfigEq(c1, c2) ==
    /\ c1.settings = c2.settings
    /\ c1.has_mappings = c2.has_mappings
    /\ AsMap(c1.mappings) = AsMap(c2.mappings)

\* yaml.dump(..., sort_keys=False) and json.dump: one line per key, the
\* entries of model_mappings in their order under its key
SupportedSuffixes == {"yaml", "yml", "json"}
Suffixes == {"yaml", "txt"}
DumpLines(c) ==
    (IF c.settings = "none" THEN <<>> ELSE << <<"settings", c.settings>> >>)
    \o (IF c.has_mappings
        THEN << <<"model_mappings">> >>
             \o [i \in 1..Len(c.mappings) |-> <<"entry", c.mappings[i].k, c.mappings[i].v>>]
        ELSE <<>>)

\* yaml.safe_load(f) or {}: the dict is built line by line
RECURSIVE LoadLines(_, _)
LoadLines(doc, c) ==
    IF doc = <<>> THEN c
    ELSE LET line == Head(doc)
             next == IF line[1] = "settings"
                     THEN [c EXCEPT !.settings = line[2]]
                     ELSE IF line[1] = "model_mappings"
                          THEN [c EXCEPT !.has_mappings = TRUE]
                          ELSE [c EXCEPT !.mappings = SetItem(c.mappings, line[2], line[3])]
         IN LoadLines(Tail(doc), next)
LoadYaml(doc) == LoadLines(doc, EmptyDict)

\* AppConfig._load_from_env with MODEL_MAPPINGS unset
LoadFromEnv == Config("s0", TRUE, <<>>)

\* AppConfig.reload_config, the configuration file being there
reload_config(yaml_mode, doc) == IF yaml_mode THEN LoadYaml(doc) ELSE LoadFromEnv

\* AppConfig.get_model_mapping
get_model_mapping(c, model_name) ==
    IF model_name = "" THEN ""
    ELSE LET mappings == IF c.has_mappings THEN c.mappings ELSE <<>>
         IN GetItem(mappings, model_name, model_name)

\* ConfigManager.get_model_mappings
get_model_mappings(c) == IF c.has_mappings THEN c.mappings ELSE <<>>

\* how a write of the configuration file may go
SaveOutcomes == {"ok", "open_fails", "dump_fails"}

\* ConfigManager._save_config on manager dict c: what it returns, the file
\* after it, and whether AppConfig reloaded
save_config(c, sfx, outcome, doc) ==
    IF sfx \notin SupportedSuffixes THEN [ret |-> FALSE, file |-> doc, reloaded |-> FALSE]
    ELSE IF outcome = "open_fails" THEN [ret |-> FALSE, file |-> doc, reloaded |-> FALSE]
    ELSE IF outcome = "dump_fails" THEN [ret |-> FALSE, file |-> <<>>, reloaded |-> FALSE]
    ELSE [ret |-> TRUE, file |-> DumpLines(c), reloaded |-> TRUE]

\* configurations at start and those posted to update_config
InitialMappings == { <<>>, <<Entry("a", "m1")>> }
NewConfigs == { Config("s1", TRUE, <<Entry("a", "m2")>>), Config("s1", FALSE, <<>>) }

\* the reference: a map as a set of pairs, changed by the operations
RefUpdate(ref, alias, model_name) ==
    { p \in ref : p[1] # alias } \cup { <<alias, model_name>> }
RefDelete(ref, alias) == { p \in ref : p[1] # alias }
NoCall == [op |-> "none"]

\* the ConfigManager calls of a run
MaxConfigCalls == 3

(***************************************************************************)
(* State.                                                                  *)
(***************************************************************************)
VARIABLES
    is_origin_reasoning,   \* the mode of the call: TRUE native, FALSE tag inference
    is_collecting_think,   \* insideThink
    accumulated_content,   \* accumulatedBuffer
    out,                   \* the events yielded to the consumer so far
    st,                    \* "open", "done" ([DONE]), "closed" (source exhausted),
                           \* "unicode_error", "transport_error" (an exception
                           \* left the generator), "cancelled"
    chunks,                \* history: the chunks consumed so far
    pre,                   \* history: insideThink, buffer and Len(out) before the
                           \* last chunk
    phase,                 \* orchestrator: "idle", "first", "second", "done",
                           \* "failed", "cancelled"
    reasoningAccumulator,  \* CompositionContext.reasoningAccumulator
    phaseSwitched,         \* CompositionContext.phaseSwitched
    clientOut,             \* the events delivered to the client so far
    secondCount,           \* the events the second adapter has delivered
    stream,                \* the request's stream parameter
    secondRequests,        \* the prompts of the second requests dispatched
    secondOut,             \* history: the texts the second adapter has delivered
    contentAccumulator,    \* the second adapter's text, joined
    result,                \* what a non-streaming call has returned
    gone,                  \* history: the client has disconnected, and how far
                           \* the request had got by then
    calls,                 \* concurrent stream_chat calls on one client: for each
                           \* its locals, the requests it dispatched, its events
    system_config,         \* self.system_config of that client
    served,                \* history: the HTTP requests answered, each with its
                           \* status and whether its handler ran
    use_yaml_config,       \* AppConfig.use_yaml_config (ENABLE_WEB_CONFIG)
    suffix,                \* suffix of CONFIG_FILE_PATH, the file of both objects
    manager_data,          \* ConfigManager.config_data
    app_data,              \* AppConfig.config_data
    shared,                \* both config_data are one and the same dict object
    config_file,           \* the lines of the configuration file
    lastCall,              \* history: the last ConfigManager call, what it
                           \* returned and both dicts as they were before it
    applied                \* history: the mapping operations applied to a
                           \* reference map, whether every call so far was a
                           \* mapping operation whose save succeeded, and the
                           \* number of calls

adapterVars == <<is_origin_reasoning, is_collecting_think, accumulated_content,
                 out, st, chunks, pre>>
orchVars == <<phase, reasoningAccumulator, phaseSwitched, clientOut, secondCount,
              stream, secondRequests, secondOut, contentAccumulator, result, gone>>
callVars == <<calls, system_config>>
authVars == <<served>>
configVars == <<use_yaml_config, suffix, manager_data, app_data, shared, config_file,
                lastCall, applied>>
webVars == <<authVars, configVars>>
vars == <<adapterVars, orchVars, callVars, webVars>>

AdapterInit ==
    /\ is_origin_reasoning \in BOOLEAN
    /\ is_collecting_think = FALSE
    /\ accumulated_content = Empty
    /\ out = <<>>
    /\ st = "open"
    /\ chunks = <<>>
    /\ pre = [inside |-> FALSE, acc |-> Empty, n |-> 0]

OrchInit(p, modes) ==
    /\ phase = p
    /\ reasoningAccumulator = Empty
    /\ phaseSwitched = FALSE
    /\ clientOut = <<>>
    /\ secondCount = 0
    /\ stream \in modes
    /\ secondRequests = <<>>
    /\ secondOut = <<>>
    /\ contentAccumulator = Empty
    /\ result = <<>>
    /\ gone = [gone |-> FALSE, chunks |-> 0, second |-> 0, requests |-> 0]

\* no call is running on the client
IdleCall ==
    [st |-> "idle", mode |-> TRUE, requests |-> <<>>, inside |-> FALSE,
     acc |-> Empty, out |-> <<>>, chunks |-> <<>>]

CallsInit(cfgs) ==
    /\ calls = [c \in CallIds |-> IdleCall]
    /\ system_config \in cfgs

\* no request has been answered
AuthInit ==
    /\ served = <<>>

\* AppConfig has loaded its configuration and the ConfigManager has taken
\* the same dict from it (_load_config), adding "model_mappings" if missing
ConfigInit(modes, suffixes, initials) ==
    /\ use_yaml_config \in modes
    /\ suffix \in suffixes
    /\ \E m \in initials :
           /\ manager_data = Config("s0", TRUE, IF use_yaml_config THEN m ELSE <<>>)
           /\ app_data = manager_data
           /\ config_file = DumpLines(manager_data)
    /\ shared = TRUE
    /\ lastCall = NoCall
    /\ applied = [map |-> AsMap(manager_data.mappings), clean |-> TRUE, calls |-> 0]

WebInit == AuthInit /\ ConfigInit({TRUE}, {"yaml"}, {<<>>})

\* a stream_chat call on its own
Init == AdapterInit /\ OrchInit("idle", {TRUE}) /\ CallsInit({EmptyConfig}) /\ WebInit

\* the adapter consumes the next chunk of its source
AdapterStep(chunk) ==
    /\ st = "open"
    /\ Len(chunks) < MaxChunks
    /\ LET r == ProcessChunk(is_origin_reasoning,
                             [inside |-> is_collecting_think,
                              acc |-> accumulated_content], chunk)
       IN /\ is_collecting_think' = r.inside
          /\ accumulated_content' = r.acc
          /\ out' = out \o r.ev
          /\ st' = CASE r.ctl = "next" -> "open"
                     [] r.ctl = "return" -> "done"
                     [] OTHER -> "unicode_error"
    /\ chunks' = Append(chunks, chunk)
    /\ pre' = [inside |-> is_collecting_think, acc |-> accumulated_content,
               n |-> Len(out)]
    /\ UNCHANGED is_origin_reasoning

\* AdapterEnd with a slip: a failure of the source takes back the events yielded
AdapterEnd_DropsEvents(how) ==
    /\ st = "open"
    /\ st' = how
    /\ out' = IF how = "transport_error" THEN <<>> ELSE out
    /\ UNCHANGED <<is_origin_reasoning, is_collecting_think, accumulated_content,
                   chunks, pre>>

\* the source ends: exhausted (the connection closes) or with a transport error
AdapterEnd(how) ==
    /\ st = "open"
    /\ st' = how
    /\ UNCHANGED <<is_origin_reasoning, is_collecting_think, accumulated_content,
                   out, chunks, pre>>

Consume(chunk) == AdapterStep(chunk) /\ UNCHANGED <<orchVars, callVars, webVars>>

EndOfStream == AdapterEnd("closed") /\ UNCHANGED <<orchVars, callVars, webVars>>

SourceFails == AdapterEnd("transport_error") /\ UNCHANGED <<orchVars, callVars, webVars>>

Next ==
    \/ \E c \in Chunks(is_origin_reasoning) : Consume(c)
    \/ EndOfStream
    \/ SourceFails

Spec == Init /\ [][Next]_vars

\* the same call on a source that delivers one event line per chunk
NextFragments ==
    \/ \E c \in FragmentChunks(is_origin_reasoning) : Consume(c)
    \/ EndOfStream
    \/ SourceFails

SpecFragments == Init /\ [][NextFragments]_vars

(***************************************************************************)
(* Composition: the first adapter is the stream_chat call above; the       *)
(* second adapter starts when the first has completed.  In streaming mode  *)
(* the events go to the client as they arrive; in non-streaming mode the   *)
(* caller gets one composed result, or an error.                           *)
(***************************************************************************)
InitOrch ==
    AdapterInit /\ OrchInit("first", BOOLEAN) /\ CallsInit({EmptyConfig}) /\ WebInit

\* the first adapter consumes a chunk; its reasoning events are accumulated
\* and, in streaming mode, go to the client
OrchFirstChunk(chunk) ==
    /\ phase = "first"
    /\ AdapterStep(chunk)
    /\ LET new == SubSeq(out', Len(out) + 1, Len(out'))
       IN /\ clientOut' = IF stream THEN clientOut \o ForwardReasoning(new)
                          ELSE clientOut
          /\ reasoningAccumulator' =
                 reasoningAccumulator \o ConcatText(SelectSeq(new, IsReasoning))
    /\ UNCHANGED <<callVars, webVars, phase, phaseSwitched, secondCount, stream, secondRequests,
                   secondOut, contentAccumulator, result, gone>>

OrchFirstEnd ==
    /\ phase = "first"
    /\ AdapterEnd("closed")
    /\ UNCHANGED <<orchVars, callVars, webVars>>

OrchFirstFails ==
    /\ phase = "first"
    /\ AdapterEnd("transport_error")
    /\ UNCHANGED <<orchVars, callVars, webVars>>

\* OrchSwitch with a slip: the second request goes out however the first ended
OrchSwitch_OnFailure ==
    /\ phase = "first"
    /\ st # "open"
    /\ phase' = "second"
    /\ phaseSwitched' = TRUE
    /\ clientOut' = IF stream THEN clientOut \o PhaseMarker ELSE clientOut
    /\ secondRequests' =
           Append(secondRequests, SecondPrompt(OriginalMessages, reasoningAccumulator))
    /\ UNCHANGED <<callVars, webVars, adapterVars, reasoningAccumulator, secondCount, stream,
                   secondOut, contentAccumulator, result, gone>>

\* first-adapter completion: the marker, then the second request
OrchSwitch ==
    /\ phase = "first"
    /\ st \in {"done", "closed"}
    /\ phase' = "second"
    /\ phaseSwitched' = TRUE
    /\ clientOut' = IF stream THEN clientOut \o PhaseMarker ELSE clientOut
    /\ secondRequests' =
           Append(secondRequests, SecondPrompt(OriginalMessages, reasoningAccumulator))
    /\ UNCHANGED <<callVars, webVars, adapterVars, reasoningAccumulator, secondCount, stream,
                   secondOut, contentAccumulator, result, gone>>

\* the first adapter failed: one terminal error event (streaming) or an
\* error result (non-streaming), and the request ends
OrchFirstError ==
    /\ phase = "first"
    /\ st \in {"unicode_error", "transport_error"}
    /\ phase' = "failed"
    /\ clientOut' = IF stream THEN clientOut \o ErrorEvent ELSE clientOut
    /\ result' = IF stream THEN result ELSE <<ErrorResult>>
    /\ UNCHANGED <<callVars, webVars, adapterVars, reasoningAccumulator, phaseSwitched, secondCount,
                   stream, secondRequests, secondOut, contentAccumulator, gone>>

\* OrchSecondEvent with a slip: the second adapter runs beside the first
OrchSecondEvent_Early(t) ==
    /\ phase \in {"first", "second"}
    /\ secondCount < MaxSecond
    /\ secondCount' = secondCount + 1
    /\ secondOut' = Append(secondOut, t)
    /\ contentAccumulator' = contentAccumulator \o t
    /\ clientOut' = IF stream THEN clientOut \o <<Cl("content", t)>> ELSE clientOut
    /\ UNCHANGED <<callVars, webVars, adapterVars, phase, reasoningAccumulator, phaseSwitched,
                   stream, secondRequests, result, gone>>

OrchSecondEvent(t) ==
    /\ phase = "second"
    /\ secondCount < MaxSecond
    /\ secondCount' = secondCount + 1
    /\ secondOut' = Append(secondOut, t)
    /\ contentAccumulator' = contentAccumulator \o t
    /\ clientOut' = IF stream THEN clientOut \o <<Cl("content", t)>> ELSE clientOut
    /\ UNCHANGED <<callVars, webVars, adapterVars, phase, reasoningAccumulator, phaseSwitched,
                   stream, secondRequests, result, gone>>

\* the second adapter is drained: non-streaming mode returns its one result
OrchSecondEnd ==
    /\ phase = "second"
    /\ phase' = "done"
    /\ result' = IF stream THEN result
                 ELSE <<ComposedResult(reasoningAccumulator, contentAccumulator)>>
    /\ UNCHANGED <<callVars, webVars, adapterVars, reasoningAccumulator, phaseSwitched, clientOut,
                   secondCount, stream, secondRequests, secondOut,
                   contentAccumulator, gone>>

\* OrchSecondFails with a slip: the error result carries the text gathered
OrchSecondFails_KeepsText ==
    /\ phase = "second"
    /\ phase' = "failed"
    /\ clientOut' = IF stream THEN clientOut \o ErrorEvent ELSE clientOut
    /\ result' = IF stream THEN result
                 ELSE <<[kind |-> "error", reasoningText |-> reasoningAccumulator,
                         contentText |-> contentAccumulator]>>
    /\ UNCHANGED <<callVars, webVars, adapterVars, reasoningAccumulator, phaseSwitched, secondCount,
                   stream, secondRequests, secondOut, contentAccumulator, gone>>

OrchSecondFails ==
    /\ phase = "second"
    /\ phase' = "failed"
    /\ clientOut' = IF stream THEN clientOut \o ErrorEvent ELSE clientOut
    /\ result' = IF stream THEN result ELSE <<ErrorResult>>
    /\ UNCHANGED <<callVars, webVars, adapterVars, reasoningAccumulator, phaseSwitched, secondCount,
                   stream, secondRequests, secondOut, contentAccumulator, gone>>

\* ClientDisconnect with a slip: the upstream connections are left to drain
ClientDisconnect_Drain ==
    /\ stream
    /\ phase \in {"first", "second"}
    /\ ~gone.gone
    /\ gone' = [gone |-> TRUE, chunks |-> Len(chunks), second |-> secondCount,
                requests |-> Len(secondRequests)]
    /\ UNCHANGED <<callVars, webVars, adapterVars, phase, reasoningAccumulator, phaseSwitched,
                   clientOut, secondCount, stream, secondRequests, secondOut,
                   contentAccumulator, result>>

\* the client of a streaming request disconnects: the request is cancelled
\* and with it the upstream connection still open
ClientDisconnect ==
    /\ stream
    /\ phase \in {"first", "second"}
    /\ ~gone.gone
    /\ gone' = [gone |-> TRUE, chunks |-> Len(chunks), second |-> secondCount,
                requests |-> Len(secondRequests)]
    /\ phase' = "cancelled"
    /\ st' = IF st = "open" THEN "cancelled" ELSE st
    /\ UNCHANGED <<callVars, webVars, is_origin_reasoning, is_collecting_think, accumulated_content,
                   out, chunks, pre, reasoningAccumulator, phaseSwitched,
                   clientOut, secondCount, stream, secondRequests, secondOut,
                   contentAccumulator, result>>

NextOrch ==
    \/ \E c \in OrchChunks(is_origin_reasoning) : OrchFirstChunk(c)
    \/ OrchFirstEnd
    \/ OrchFirstFails
    \/ OrchSwitch
    \/ OrchFirstError
    \/ \E t \in SecondTexts : OrchSecondEvent(t)
    \/ OrchSecondEnd
    \/ OrchSecondFails
    \/ ClientDisconnect

SpecOrch == InitOrch /\ [][NextOrch]_vars

(***************************************************************************)
(* Concurrent stream_chat calls on one DeepSeekClient.  Each call is a     *)
(* coroutine with its own locals; the calls interleave at the awaits on    *)
(* the next chunk.                                                         *)
(***************************************************************************)
InitCalls ==
    /\ AdapterInit
    /\ is_origin_reasoning
    /\ OrchInit("idle", {TRUE})
    /\ CallsInit(SystemConfigs)
    /\ WebInit

\* stream_chat is called: the request is built and dispatched
CallStart(c, mode) ==
    /\ calls[c].st = "idle"
    /\ calls' = [calls EXCEPT ![c] =
                    [st |-> "open", mode |-> mode,
                     requests |-> Append(calls[c].requests,
                                         BuildRequest(mode, system_config)),
                     inside |-> FALSE, acc |-> Empty, out |-> <<>>,
                     chunks |-> <<>>]]
    /\ UNCHANGED <<adapterVars, orchVars, system_config, webVars>>

\* CallChunk with a slip: insideThink and the buffer are kept on the client
CallChunk_OnClient(c, chunk) ==
    /\ calls[c].st = "open"
    /\ chunk \in CallChunks(calls[c].mode)
    /\ Len(calls[c].chunks) < MaxCallChunks
    /\ LET r == ProcessChunk(calls[c].mode,
                             [inside |-> calls[1].inside, acc |-> calls[1].acc],
                             chunk)
       IN calls' = [k \in CallIds |->
                       IF k = c
                       THEN [calls[k] EXCEPT
                                !.inside = r.inside, !.acc = r.acc,
                                !.out = calls[k].out \o r.ev,
                                !.chunks = Append(calls[k].chunks, chunk),
                                !.st = CASE r.ctl = "next" -> "open"
                                         [] r.ctl = "return" -> "done"
                                         [] OTHER -> "unicode_error"]
                       ELSE [calls[k] EXCEPT !.inside = r.inside, !.acc = r.acc]]
    /\ UNCHANGED <<adapterVars, orchVars, system_config, webVars>>

\* call c consumes the next chunk of its source
CallChunk(c, chunk) ==
    /\ calls[c].st = "open"
    /\ chunk \in CallChunks(calls[c].mode)
    /\ Len(calls[c].chunks) < MaxCallChunks
    /\ LET r == ProcessChunk(calls[c].mode,
                             [inside |-> calls[c].inside, acc |-> calls[c].acc],
                             chunk)
       IN calls' = [calls EXCEPT ![c] =
                       [calls[c] EXCEPT
                           !.inside = r.inside, !.acc = r.acc,
                           !.out = calls[c].out \o r.ev,
                           !.chunks = Append(calls[c].chunks, chunk),
                           !.st = CASE r.ctl = "next" -> "open"
                                    [] r.ctl = "return" -> "done"
                                    [] OTHER -> "unicode_error"]]
    /\ UNCHANGED <<adapterVars, orchVars, system_config, webVars>>

\* the source of call c ends: exhausted, or with a transport error
CallEnd(c, how) ==
    /\ calls[c].st = "open"
    /\ calls' = [calls EXCEPT ![c].st = how]
    /\ UNCHANGED <<adapterVars, orchVars, system_config, webVars>>

NextCalls ==
    \/ \E c \in CallIds, mode \in BOOLEAN : CallStart(c, mode)
    \/ \E c \in CallIds, chunk \in CallChunks(TRUE) \cup CallChunks(FALSE) :
          CallChunk(c, chunk)
    \/ \E c \in CallIds : CallEnd(c, "closed")
    \/ \E c \in CallIds : CallEnd(c, "transport_error")

SpecCalls == InitCalls /\ [][NextCalls]_vars

(***************************************************************************)
(* Requests to the HTTP endpoints.                                         *)
(***************************************************************************)
\* a request arrives at an endpoint and is answered
Request(endpoint, authorization) ==
    /\ Len(served) < MaxRequests
    /\ served' = Append(served, Serve(endpoint, authorization))
    /\ UNCHANGED <<adapterVars, orchVars, callVars, configVars>>

NextAuth == \E e \in Endpoints, h \in AuthHeaders : Request(e, h)

SpecAuth == Init /\ [][NextAuth]_vars

(***************************************************************************)
(* Calls to the ConfigManager.  Each call is the whole method: the change  *)
(* to the manager's dict, _save_config and the reload of AppConfig that a  *)
(* successful save ends with.  The endpoints of config_server.py reload    *)
(* AppConfig once more after a call that returned True, which reads the    *)
(* same file again.                                                        *)
(***************************************************************************)
\* the end of a call that changed the manager's dict to c and then saved;
\* in_place: the dict object was changed, not replaced
SaveAndReload(op, c, in_place, outcome) ==
    LET s == save_config(c, suffix, outcome, config_file)
    IN /\ manager_data' = c
       /\ config_file' = s.file
       /\ app_data' = IF s.reloaded THEN reload_config(use_yaml_config, s.file)
                      ELSE IF in_place /\ shared THEN c
                      ELSE app_data
       /\ shared' = (in_place /\ shared /\ ~s.reloaded)
       /\ lastCall' = [op |-> op, ret |-> s.ret,
                       manager_before |-> manager_data, app_before |-> app_data]

update_model_mapping(alias, model_name, outcome) ==
    LET base == IF manager_data.has_mappings THEN manager_data
                ELSE [manager_data EXCEPT !.has_mappings = TRUE, !.mappings = <<>>]
        c    == [base EXCEPT !.mappings = SetItem(@, alias, model_name)]
    IN /\ applied.calls < MaxConfigCalls
       /\ SaveAndReload("update_model_mapping", c, TRUE, outcome)
       /\ applied' = [map   |-> RefUpdate(applied.map, alias, model_name),
                      clean |-> applied.clean /\ lastCall'.ret,
                      calls |-> applied.calls + 1]
       /\ UNCHANGED <<use_yaml_config, suffix, authVars, adapterVars, orchVars, callVars>>

delete_model_mapping(alias, outcome) ==
    /\ applied.calls < MaxConfigCalls
    /\ IF manager_data.has_mappings /\ alias \in Keys(manager_data.mappings)
       THEN /\ SaveAndReload("delete_model_mapping",
                             [manager_data EXCEPT !.mappings = DelItem(@, alias)],
                             TRUE, outcome)
            /\ applied' = [map   |-> RefDelete(applied.map, alias),
                           clean |-> applied.clean /\ lastCall'.ret,
                           calls |-> applied.calls + 1]
       ELSE /\ outcome = "ok"
            /\ lastCall' = [op |-> "delete_model_mapping", ret |-> FALSE,
                            manager_before |-> manager_data, app_before |-> app_data]
            /\ applied' = [applied EXCEPT !.map = RefDelete(@, alias), !.calls = @ + 1]
            /\ UNCHANGED <<manager_data, app_data, shared, config_file>>
    /\ UNCHANGED <<use_yaml_config, suffix, authVars, adapterVars, orchVars, callVars>>

\* update_config; after a save that succeeded it also writes the settings to
\* the .env file, which no call here reads
update_config(new_config, outcome) ==
    /\ applied.calls < MaxConfigCalls
    /\ SaveAndReload("update_config", new_config, FALSE, outcome)
    /\ applied' = [applied EXCEPT !.clean = FALSE, !.calls = @ + 1]
    /\ UNCHANGED <<use_yaml_config, suffix, authVars, adapterVars, orchVars, callVars>>

InitConfig ==
    /\ AdapterInit /\ OrchInit("idle", {TRUE}) /\ CallsInit({EmptyConfig})
    /\ AuthInit
    /\ ConfigInit(BOOLEAN, Suffixes, InitialMappings)

NextConfig ==
    \/ \E alias \in Aliases, model_name \in ModelNames, o \in SaveOutcomes :
           update_model_mapping(alias, model_name, o)
    \/ \E alias \in Aliases, o \in SaveOutcomes : delete_model_mapping(alias, o)
    \/ \E new_config \in NewConfigs, o \in SaveOutcomes : update_config(new_config, o)

SpecConfig == InitConfig /\ [][NextConfig]_vars

(***************************************************************************)
(* Vocabulary of the properties.                                           *)
(***************************************************************************)
LastChunk == chunks[Len(chunks)]
\* the events yielded while the last chunk was processed
NewEvents == SubSeq(out, pre.n + 1, Len(out))
PreState == [inside |-> pre.inside, acc |-> pre.acc]

\* c is a sequence of well-formed delta lines, each ended by its newline
IsDeltaLines(c) ==
    /\ Len(c) > 0
    /\ Len(c) % 4 = 0
    /\ \A i \in 0..((Len(c) \div 4) - 1) :
          /\ c[4 * i + 1].k = "data"
          /\ c[4 * i + 2].k = "open"
          /\ c[4 * i + 3].k = "close"
          /\ c[4 * i + 4].k = "nl"
DeltasOf(c) == [i \in 1..(Len(c) \div 4) |-> c[4 * i - 2].d]
IsOneDeltaLine(c) == IsDeltaLines(c) /\ Len(c) = 4

RECURSIVE Flatten(_)
Flatten(ss) == IF ss = <<>> THEN <<>> ELSE Head(ss) \o Flatten(Tail(ss))

\* the non-empty content fragments of a sequence of deltas, in order
RECURSIVE FragmentsOf(_)
FragmentsOf(ds) ==
    IF ds = <<>> THEN <<>>
    ELSE (IF Truthy(Head(ds).c) THEN <<Head(ds).c.s>> ELSE <<>>)
         \o FragmentsOf(Tail(ds))

HasBoth(f) == Contains(f, ThinkOpen) /\ Contains(f, ThinkClose)

\* a line as str.splitlines gives it raises inside the try block: its payload
\* is no JSON, or JSON of an unexpected shape
LineRaises(line) ==
    /\ StartsWithData(line)
    /\ Tail(line) # <<Tok("done")>>
    /\ \/ ~JsonLoads(Tail(line)).ok
       \/ JsonLoads(Tail(line)).kind = "num"

(***************************************************************************)
(* C1: in tag-inference mode a non-empty fragment f met with insideThink   *)
(* = s yields: s false and f holds "<think>": (Reasoning, f), s becomes    *)
(* true; s true and f holds "</think>": (Reasoning, f) then (Content, ""), *)
(* s becomes false; s true, no "</think>": (Reasoning, f); s false, no     *)
(* "<think>": (Content, f).  A fragment holding both markers met with s    *)
(* false is left out.  The fragments "<think>", "step one", "</think>",    *)
(* "answer" yield the five events of scenario B.                           *)
(***************************************************************************)
C1_Table(s, f) ==
    IF ~s /\ Contains(f, ThinkOpen)
    THEN [said |-> ~HasBoth(f), ev |-> <<Ev("reasoning", f)>>, inside |-> TRUE]
    ELSE IF s /\ Contains(f, ThinkClose)
    THEN [said |-> TRUE, ev |-> <<Ev("reasoning", f), Ev("content", Empty)>>,
          inside |-> FALSE]
    ELSE IF s
    THEN [said |-> TRUE, ev |-> <<Ev("reasoning", f)>>, inside |-> TRUE]
    ELSE [said |-> TRUE, ev |-> <<Ev("content", f)>>, inside |-> FALSE]

RECURSIVE C1_Fold(_, _)
C1_Fold(s, fs) ==
    IF fs = <<>> THEN [said |-> TRUE, ev |-> <<>>, inside |-> s]
    ELSE LET h == C1_Table(s, Head(fs))
             t == C1_Fold(h.inside, Tail(fs))
         IN [said |-> h.said /\ t.said, ev |-> h.ev \o t.ev, inside |-> t.inside]

ScenarioB_Out ==
    << Ev("reasoning", ThinkOpen), Ev("reasoning", TxtStepOne),
       Ev("reasoning", ThinkClose), Ev("content", Empty),
       Ev("content", TxtAnswer) >>

C1_TagClassification ==
    (~is_origin_reasoning /\ chunks # <<>> /\ IsDeltaLines(LastChunk)) =>
        LET e == C1_Fold(pre.inside, FragmentsOf(DeltasOf(LastChunk)))
        IN /\ e.said => (NewEvents = e.ev /\ is_collecting_think = e.inside)
           /\ ( /\ \A i \in 1..Len(chunks) : IsDeltaLines(chunks[i])
                /\ FragmentsOf(DeltasOf(Flatten(chunks)))
                     = <<ThinkOpen, TxtStepOne, ThinkClose, TxtAnswer>> )
              => out = ScenarioB_Out

C1_Witness ==
    /\ ~is_origin_reasoning
    /\ \A i \in 1..Len(chunks) : IsDeltaLines(chunks[i])
    /\ FragmentsOf(DeltasOf(Flatten(chunks)))
         = <<ThinkOpen, TxtStepOne, ThinkClose, TxtAnswer>>
    /\ out = ScenarioB_Out
    /\ ~is_collecting_think

(***************************************************************************)
(* C2: in native mode a delta whose reasoning_content is non-empty yields  *)
(* (Reasoning, reasoning_content), and a delta whose reasoning_content is  *)
(* absent, null or "" and whose content is non-empty yields                *)
(* (Content, content).                                                     *)
(***************************************************************************)
C2_NativeClassification ==
    (is_origin_reasoning /\ chunks # <<>> /\ IsOneDeltaLine(LastChunk)) =>
        LET d == DeltasOf(LastChunk)[1]
        IN /\ Truthy(d.rc) =>
                \E i \in 1..Len(NewEvents) : NewEvents[i] = Ev("reasoning", d.rc.s)
           /\ (~Truthy(d.rc) /\ Truthy(d.c)) =>
                \E i \in 1..Len(NewEvents) : NewEvents[i] = Ev("content", d.c.s)

(***************************************************************************)
(* C3: in streaming composition no reasoning event is delivered to the     *)
(* client after a phase-two content event.                                 *)
(***************************************************************************)
C3_ReasoningBeforeContent ==
    \A i, j \in 1..Len(clientOut) :
        (clientOut[i].kind = "content" /\ i < j) => clientOut[j].kind # "reasoning"

C3_Witness ==
    /\ phase = "done"
    /\ \E i, j \in 1..Len(clientOut) :
          i < j /\ clientOut[i].kind = "reasoning" /\ clientOut[j].kind = "content"

(***************************************************************************)
(* C4: when both adapters complete normally the client has received        *)
(* exactly one phase-changed marker, after the last reasoning event and    *)
(* before the first phase-two content event.                               *)
(***************************************************************************)
C4_OneMarkerAtBoundary ==
    (stream /\ phase = "done") =>
        /\ Cardinality({i \in 1..Len(clientOut) : clientOut[i].kind = "marker"}) = 1
        /\ \A m, i \in 1..Len(clientOut) :
              clientOut[m].kind = "marker" =>
                  /\ clientOut[i].kind = "reasoning" => i < m
                  /\ clientOut[i].kind = "content" => m < i

C4_Witness ==
    /\ phase = "done"
    /\ st \in {"done", "closed"}
    /\ \E i \in 1..Len(clientOut) : clientOut[i].kind = "reasoning"
    /\ \E i \in 1..Len(clientOut) : clientOut[i].kind = "content"

(***************************************************************************)
(* C5: in either mode, when the adapter comes to a line whose payload is   *)
(* the literal [DONE], the sequence ends there, normally: the chunk        *)
(* yields the events of the lines before that line and no others, and no   *)
(* further chunk is consumed.                                              *)
(***************************************************************************)
\* the place of the [DONE] line the adapter comes to in chunk c, or 0
DoneAt(c) ==
    IF ~Utf8Valid(c) THEN 0
    ELSE LET ls == SplitLines(Decode(c).s)
             hit == {k \in 1..Len(ls) :
                        /\ ls[k] = <<Tok("data"), Tok("done")>>
                        /\ \A j \in 1..(k - 1) :
                              ~LineRaises(ls[j]) /\ ls[j] # ls[k]}
         IN IF hit = {} THEN 0 ELSE CHOOSE k \in hit : TRUE

C5_DoneEndsStream ==
    \A i \in 1..Len(chunks) :
        DoneAt(chunks[i]) > 0 =>
            /\ i = Len(chunks)
            /\ st = "done"
            /\ NewEvents =
                 RunLines(is_origin_reasoning, PreState,
                          SubSeq(SplitLines(Decode(chunks[i]).s), 1,
                                 DoneAt(chunks[i]) - 1)).ev

C5_Witness ==
    /\ st = "done"
    /\ Len(chunks) = 2
    /\ out # <<>>
    /\ DoneAt(LastChunk) = 1
    /\ Len(SplitLines(Decode(LastChunk).s)) = 2
    /\ NewEvents = <<>>

(***************************************************************************)
(* C6: in tag-inference mode, when every marker lies wholly inside one     *)
(* fragment, the number of synthetic (Content, "") events equals the       *)
(* number of completed opening/closing marker pairs of the stream, a pair  *)
(* inside one fragment included.                                           *)
(***************************************************************************)
StartsWith(t, m) == Len(t) >= Len(m) /\ SubSeq(t, 1, Len(m)) = m
Drop(t, n) == SubSeq(t, n + 1, Len(t))

RECURSIVE Occurrences(_, _)
Occurrences(t, m) ==
    IF Len(t) < Len(m) THEN 0
    ELSE (IF StartsWith(t, m) THEN 1 ELSE 0) + Occurrences(Tail(t), m)

RECURSIVE SumOccurrences(_, _)
SumOccurrences(fs, m) ==
    IF fs = <<>> THEN 0
    ELSE Occurrences(Head(fs), m) + SumOccurrences(Tail(fs), m)

\* completed pairs of a text: an opening marker, later a closing marker
RECURSIVE CompletedPairs(_, _)
CompletedPairs(t, inside) ==
    IF t = <<>> THEN 0
    ELSE IF ~inside /\ StartsWith(t, ThinkOpen)
    THEN CompletedPairs(Drop(t, Len(ThinkOpen)), TRUE)
    ELSE IF inside /\ StartsWith(t, ThinkClose)
    THEN 1 + CompletedPairs(Drop(t, Len(ThinkClose)), FALSE)
    ELSE CompletedPairs(Tail(t), inside)

C6_OneBoundaryPerPair ==
    ( /\ ~is_origin_reasoning
      /\ \A i \in 1..Len(chunks) : IsDeltaLines(chunks[i]) ) =>
        LET fs == FragmentsOf(DeltasOf(Flatten(chunks)))
            text == Flatten(fs)
        IN ( /\ Occurrences(text, ThinkOpen) = SumOccurrences(fs, ThinkOpen)
             /\ Occurrences(text, ThinkClose) = SumOccurrences(fs, ThinkClose) )
           => Cardinality({i \in 1..Len(out) : out[i] = Ev("content", Empty)})
                = CompletedPairs(text, FALSE)

(***************************************************************************)
(* C7 as stated: in tag-inference mode a fragment holding both markers     *)
(* yields exactly one event, carrying the fragment unchanged and tagged    *)
(* neither Reasoning nor Content.                                          *)
(***************************************************************************)
C7_PassThroughUnclassified ==
    ( /\ ~is_origin_reasoning /\ chunks # <<>> /\ IsOneDeltaLine(LastChunk)
      /\ Truthy(DeltasOf(LastChunk)[1].c)
      /\ HasBoth(DeltasOf(LastChunk)[1].c.s) ) =>
        /\ Len(NewEvents) = 1
        /\ NewEvents[1].text = DeltasOf(LastChunk)[1].c.s
        /\ NewEvents[1].type \notin {"reasoning", "content"}

(***************************************************************************)
(* C7 amended: in tag-inference mode a fragment holding both markers       *)
(* yields exactly one event carrying the fragment, unchanged and tagged    *)
(* Reasoning, never twice; the only other event it may yield is the        *)
(* synthetic (Content, "") that follows it.                                *)
(***************************************************************************)
C7_BothMarkersAsReasoning ==
    ( /\ ~is_origin_reasoning /\ chunks # <<>> /\ IsOneDeltaLine(LastChunk)
      /\ Truthy(DeltasOf(LastChunk)[1].c)
      /\ HasBoth(DeltasOf(LastChunk)[1].c.s) ) =>
        LET f == DeltasOf(LastChunk)[1].c.s
        IN /\ Cardinality({i \in 1..Len(NewEvents) : NewEvents[i].text = f}) = 1
           /\ NewEvents \in { <<Ev("reasoning", f)>>,
                              <<Ev("reasoning", f), Ev("content", Empty)>> }

C7_Witness ==
    /\ ~is_origin_reasoning
    /\ Len(chunks) = 2
    /\ chunks[1] = DeltaLine(Delta(Absent, Str(TxtBoth)))
    /\ chunks[2] = DeltaLine(Delta(Absent, Str(TxtBoth)))
    /\ out = << Ev("reasoning", TxtBoth), Ev("reasoning", TxtBoth),
                Ev("content", Empty) >>

(***************************************************************************)
(* C8: a malformed JSON line costs that one line only: the events yielded  *)
(* and the adapter state are those of the same chunks without their        *)
(* malformed lines.                                                        *)
(***************************************************************************)
RECURSIVE JoinLines(_)
JoinLines(ls) ==
    IF ls = <<>> THEN <<>> ELSE Head(ls) \o <<Tok("nl")>> \o JoinLines(Tail(ls))

Malformed(line) ==
    StartsWithData(line) /\ Tail(line) # <<Tok("done")>> /\ ~JsonLoads(Tail(line)).ok

WellFormed(line) == ~Malformed(line)

WithoutMalformed(c) == JoinLines(SelectSeq(SplitLines(Decode(c).s), WellFormed))

C8_MalformedLineSkippedAlone ==
    (\A i \in 1..Len(chunks) : Utf8Valid(chunks[i])) =>
        LET ref == RunChunks(is_origin_reasoning, Fresh,
                             [i \in 1..Len(chunks) |-> WithoutMalformed(chunks[i])])
        IN /\ out = ref.ev
           /\ is_collecting_think = ref.inside
           /\ accumulated_content = ref.acc

(***************************************************************************)
(* C9: no decode-level fault ends the sequence: after a chunk that is not  *)
(* valid UTF-8 on its own, or holds a malformed JSON line or a JSON value  *)
(* of unexpected shape, no error reaches the consumer and the adapter      *)
(* goes on with the next chunk.                                            *)
(***************************************************************************)
DecodeFault(c) ==
    \/ ~Utf8Valid(c)
    \/ \E k \in 1..Len(SplitLines(Decode(c).s)) :
          LineRaises(SplitLines(Decode(c).s)[k])

C9_DecodeFaultNeverAborts ==
    (chunks # <<>> /\ DecodeFault(LastChunk)) => st \in {"open", "closed", "done"}

(***************************************************************************)
(* C10: the events yielded do not depend on how the byte stream is cut     *)
(* into chunks: a stream delivered in several chunks, one of which may end *)
(* inside an event line, yields what the same bytes yield in one chunk.    *)
(***************************************************************************)
C10_ChunkingIndependent ==
    ( /\ st \in {"closed", "done"}
      /\ \A i \in 1..Len(chunks) : Utf8Valid(chunks[i])
      /\ LET ls == SplitLines(Decode(Flatten(chunks)).s)
         IN \A k \in 1..Len(ls) : ~LineRaises(ls[k]) ) =>
        out = RunChunks(is_origin_reasoning, Fresh, <<Flatten(chunks)>>).ev

(***************************************************************************)
(* C11: in native mode, whatever the arrangement of delta lines,           *)
(* keep-alives and malformed lines over the chunks, the texts of the       *)
(* Reasoning events yielded, joined in order, are the non-empty            *)
(* reasoning_content values, joined in order, of the well-formed deltas    *)
(* received before [DONE] or the end of the stream.                        *)
(***************************************************************************)
\* the lines received, chunk after chunk
AllLines == Flatten([i \in 1..Len(chunks) |-> SplitLines(Decode(chunks[i]).s)])

IsDoneLine(line) == StartsWithData(line) /\ Tail(line) = <<Tok("done")>>

IsEventLine(line) ==
    StartsWithData(line) /\ JsonLoads(Tail(line)).ok
                         /\ JsonLoads(Tail(line)).kind = "event"

\* the deltas of the well-formed event lines that come before [DONE]
RECURSIVE DeltasBeforeDone(_)
DeltasBeforeDone(ls) ==
    IF ls = <<>> THEN <<>>
    ELSE IF IsDoneLine(Head(ls)) THEN <<>>
    ELSE (IF IsEventLine(Head(ls)) THEN <<JsonLoads(Tail(Head(ls))).d>> ELSE <<>>)
         \o DeltasBeforeDone(Tail(ls))

RECURSIVE ReasoningOf(_)
ReasoningOf(ds) ==
    IF ds = <<>> THEN Empty
    ELSE (IF Truthy(Head(ds).rc) THEN Head(ds).rc.s ELSE Empty)
         \o ReasoningOf(Tail(ds))

C11_ReasoningRoundTrip ==
    (is_origin_reasoning /\ \A i \in 1..Len(chunks) : Utf8Valid(chunks[i])) =>
        ConcatText(SelectSeq(out, IsReasoning)) = ReasoningOf(DeltasBeforeDone(AllLines))

(***************************************************************************)
(* C12: in tag-inference mode every non-empty content fragment received    *)
(* before [DONE] or the end of the stream is yielded exactly once,         *)
(* verbatim and in arrival order: the non-empty events are, one for one,   *)
(* the non-empty fragments, and every other event is an empty-text         *)
(* (Content, "") boundary.                                                 *)
(***************************************************************************)
HasText(e) == e.text # Empty

TextsOf(evs) == [i \in 1..Len(evs) |-> evs[i].text]

C12_EveryFragmentOnce ==
    (~is_origin_reasoning /\ \A i \in 1..Len(chunks) : Utf8Valid(chunks[i])) =>
        /\ TextsOf(SelectSeq(out, HasText)) = FragmentsOf(DeltasBeforeDone(AllLines))
        /\ \A i \in 1..Len(out) : ~HasText(out[i]) => out[i] = Ev("content", Empty)

(***************************************************************************)
(* C13: the second adapter's request is dispatched only when the first     *)
(* adapter's sequence has completed, and its prompt is the original        *)
(* messages plus the texts, joined in order, of all the Reasoning events   *)
(* the first adapter yielded; in streaming mode that is the reasoning      *)
(* text the client has been sent.                                          *)
(***************************************************************************)
IsClReasoning(e) == e.kind = "reasoning"

C13_SecondPromptAfterFirst ==
    /\ Len(secondRequests) <= 1
    /\ secondOut # <<>> => secondRequests # <<>>
    /\ \A i \in 1..Len(secondRequests) :
          /\ st \in {"done", "closed"}
          /\ secondRequests[i].messages = "messages"
          /\ secondRequests[i].reasoning = ConcatText(SelectSeq(out, IsReasoning))
          /\ stream => secondRequests[i].reasoning
                           = ConcatText(SelectSeq(clientOut, IsClReasoning))

C13_Witness ==
    /\ stream
    /\ secondRequests # <<>>
    /\ Len(SelectSeq(out, IsReasoning)) >= 2
    /\ secondOut # <<>>

(***************************************************************************)
(* C14: when the first adapter fails, before any reasoning text or after   *)
(* some, no second request is issued, in streaming and in non-streaming    *)
(* mode.                                                                   *)
(***************************************************************************)
C14_NoSecondAfterFirstFailure ==
    st \in {"unicode_error", "transport_error"} =>
        /\ secondRequests = <<>>
        /\ secondOut = <<>>
        /\ phase \notin {"second", "done"}

C14_Witness ==
    /\ st = "transport_error"
    /\ phase = "failed"
    /\ reasoningAccumulator # Empty

(***************************************************************************)
(* C15: in streaming mode, when an adapter has failed the client has       *)
(* received the events delivered before the failure, in order, then one    *)
(* terminal error event, and nothing after it.                             *)
(***************************************************************************)
C15_OneTerminalError ==
    (stream /\ phase = "failed") =>
        clientOut = ForwardReasoning(out)
                    \o (IF phaseSwitched
                        THEN <<Cl("marker", Empty)>> \o ToContent(secondOut)
                        ELSE <<>>)
                    \o <<Cl("error", Empty)>>

C15_Witness ==
    /\ stream
    /\ phase = "failed"
    /\ phaseSwitched
    /\ secondOut # <<>>
    /\ \E i \in 1..Len(clientOut) : clientOut[i].kind = "reasoning"

(***************************************************************************)
(* C16: in non-streaming mode the caller gets nothing while an adapter is  *)
(* still being drained; when both are drained it gets one result holding   *)
(* the reasoning text and the content text; when an adapter fails it gets  *)
(* an error and none of the text gathered.                                 *)
(***************************************************************************)
C16_OneResultOrError ==
    ~stream =>
        /\ clientOut = <<>>
        /\ phase \in {"first", "second"} => result = <<>>
        /\ phase = "done" =>
              result = <<[kind |-> "result",
                          reasoningText |-> ConcatText(SelectSeq(out, IsReasoning)),
                          contentText |-> Flatten(secondOut)]>>
        /\ phase = "failed" =>
              result = <<[kind |-> "error", reasoningText |-> Empty,
                          contentText |-> Empty]>>

C16_Witness ==
    /\ ~stream
    /\ phase = "failed"
    /\ reasoningAccumulator # Empty
    /\ contentAccumulator # Empty
    /\ Len(result) = 1

(***************************************************************************)
(* C17: once the client of a streaming request has disconnected, no        *)
(* further chunk is consumed from either provider, no upstream connection  *)
(* stays open, and a second adapter not yet started is not started.        *)
(***************************************************************************)
C17_DisconnectCancels ==
    gone.gone =>
        /\ Len(chunks) = gone.chunks
        /\ secondCount = gone.second
        /\ Len(secondOut) = gone.second
        /\ Len(secondRequests) = gone.requests
        /\ st # "open"
        /\ phase = "cancelled"

C17_Witness ==
    /\ gone.gone
    /\ st = "cancelled"
    /\ out # <<>>
    /\ secondRequests = <<>>

(***************************************************************************)
(* C18: concurrent stream_chat calls on one client share no mutable state: *)
(* under every interleaving of their chunk arrivals each call has yielded  *)
(* the events, and holds the insideThink and buffer, of a call running     *)
(* alone on the chunks it has consumed.                                    *)
(***************************************************************************)
C18_CallsIndependent ==
    \A c \in CallIds :
        calls[c].st # "idle" =>
            LET alone == RunChunks(calls[c].mode, Fresh, calls[c].chunks)
            IN /\ calls[c].out = alone.ev
               /\ calls[c].inside = alone.inside
               /\ calls[c].acc = alone.acc

C18_Witness ==
    /\ calls[1].st = "open" /\ calls[2].st = "open"
    /\ ~calls[1].mode /\ ~calls[2].mode
    /\ calls[1].inside
    /\ calls[1].out = <<Ev("reasoning", ThinkOpen), Ev("reasoning", TxtStepOne)>>
    /\ calls[2].out = <<Ev("content", TxtStepOne)>>

(***************************************************************************)
(* C19: the request of a stream_chat call carries max_tokens exactly when  *)
(* the call is in native mode and save_deepseek_tokens is enabled, and     *)
(* then with the configured maximum; in tag-inference mode it never does;  *)
(* the call dispatches one request, which stays as it was built.           *)
(***************************************************************************)
PolicyEnabled ==
    system_config.save_deepseek_tokens.p = "bool" /\ system_config.save_deepseek_tokens.b

ConfiguredMaximum ==
    IF system_config.save_deepseek_tokens_max_tokens.p = "int"
    THEN system_config.save_deepseek_tokens_max_tokens.n
    ELSE 5

C19_MaxTokensOnlyNativeWithPolicy ==
    \A c \in CallIds :
        calls[c].st # "idle" =>
            /\ Len(calls[c].requests) = 1
            /\ LET req == calls[c].requests[1]
               IN /\ req.model = "model" /\ req.messages = "messages" /\ req.stream
                  /\ (req.max_tokens.p # "absent") <=> (calls[c].mode /\ PolicyEnabled)
                  /\ (calls[c].mode /\ PolicyEnabled) =>
                         (req.max_tokens.p = "int" /\ req.max_tokens.n = ConfiguredMaximum)
                  /\ ~calls[c].mode => req.max_tokens.p = "absent"

C19_Witness ==
    /\ PolicyEnabled
    /\ calls[1].st = "done" /\ calls[1].mode
    /\ calls[1].requests[1].max_tokens.n = 3
    /\ calls[2].st = "done" /\ ~calls[2].mode
    /\ calls[2].requests[1].max_tokens.p = "absent"

(***************************************************************************)
(* C20: a transport failure of the chunk source ends the adapter's         *)
(* sequence with the error, not as a normal end of stream: the consumer    *)
(* has then been handed, in order, the events of every chunk received      *)
(* before the failure, and nothing comes after.                            *)
(***************************************************************************)
C20_TransportFailurePropagates ==
    st = "transport_error" =>
        LET before == RunChunks(is_origin_reasoning, Fresh, chunks)
        IN /\ before.ctl = "closed"
           /\ out = before.ev

C20_Witness ==
    /\ st = "transport_error"
    /\ Len(chunks) >= 2
    /\ Len(out) >= 2

(***************************************************************************)
(* C21: a keep-alive delivery (lines without the "data: " prefix, events   *)
(* with no choices or an empty delta, deltas with no reasoning or content  *)
(* text, deltas whose content is "") yields no event, leaves insideThink   *)
(* and the buffer as they were, and does not end the stream: the stream    *)
(* ends only when the source does.                                         *)
(***************************************************************************)
KeepAliveDelta(d) == ~Truthy(d.rc) /\ ~Truthy(d.c)

KeepAliveLine(line) ==
    \/ ~StartsWithData(line)
    \/ /\ StartsWithData(line)
       /\ JsonLoads(Tail(line)).ok
       /\ \/ JsonLoads(Tail(line)).kind = "nochoices"
          \/ /\ JsonLoads(Tail(line)).kind = "event"
             /\ KeepAliveDelta(JsonLoads(Tail(line)).d)

KeepAliveChunk(c) ==
    /\ Utf8Valid(c)
    /\ \A k \in 1..Len(SplitLines(Decode(c).s)) :
          KeepAliveLine(SplitLines(Decode(c).s)[k])

C21_KeepAliveIsNoOp ==
    (chunks # <<>> /\ KeepAliveChunk(LastChunk)) =>
        /\ NewEvents = <<>>
        /\ is_collecting_think = pre.inside
        /\ accumulated_content = pre.acc
        /\ st \notin {"done", "unicode_error"}

C21_Witness ==
    /\ ~is_origin_reasoning
    /\ Len(chunks) = 3
    /\ chunks[2] = DeltaLine(Delta(Absent, Str(Empty)))
    /\ chunks[3] = DeltaLine(Delta(Null, Null))
    /\ is_collecting_think
    /\ accumulated_content = ThinkOpen
    /\ st = "open"

(***************************************************************************)
(* C22: in tag-inference mode the buffer is empty right after each         *)
(* phase-boundary event, and otherwise holds, joined in order, the         *)
(* non-empty fragments classified since the last boundary event or since   *)
(* the start of the stream.                                                *)
(***************************************************************************)
IsBoundary(e) == e = Ev("content", Empty)

\* the index of the last boundary event of evs, 0 if there is none
LastBoundary(evs) ==
    IF \E i \in 1..Len(evs) : IsBoundary(evs[i])
    THEN CHOOSE i \in 1..Len(evs) :
             IsBoundary(evs[i]) /\ \A j \in (i + 1)..Len(evs) : ~IsBoundary(evs[j])
    ELSE 0

SinceBoundary(evs) == SubSeq(evs, LastBoundary(evs) + 1, Len(evs))

C22_BufferSinceBoundary ==
    ~is_origin_reasoning =>
        /\ accumulated_content = ConcatText(SinceBoundary(out))
        /\ (out # <<>> /\ IsBoundary(out[Len(out)])) => accumulated_content = Empty

C22_Witness ==
    /\ ~is_origin_reasoning
    /\ LastBoundary(out) = 3
    /\ Len(out) = 4
    /\ accumulated_content = TxtAnswer

(***************************************************************************)
(* C23: the mode is fixed for the whole stream and the modes do not mix.   *)
(* In native mode the marker literals have no effect: insideThink stays    *)
(* false, the buffer stays empty and no (Content, "") event is yielded.    *)
(* In tag-inference mode reasoning_content has no influence: the events    *)
(* and the state are those of the same chunks without that field.          *)
(***************************************************************************)
\* the chunk with the reasoning_content of its deltas removed
EraseReasoning(c) ==
    [i \in 1..Len(c) |->
        IF c[i].k = "open" THEN Open(Delta(Absent, c[i].d.c)) ELSE c[i]]

C23_ModesNeverMix ==
    /\ out = RunChunks(is_origin_reasoning, Fresh, chunks).ev
    /\ is_origin_reasoning =>
          /\ ~is_collecting_think
          /\ accumulated_content = Empty
          /\ \A i \in 1..Len(out) : out[i].text # Empty
    /\ ~is_origin_reasoning =>
          LET without == RunChunks(FALSE, Fresh,
                                   [i \in 1..Len(chunks) |-> EraseReasoning(chunks[i])])
          IN /\ out = without.ev
             /\ is_collecting_think = without.inside
             /\ accumulated_content = without.acc

C23_Witness ==
    /\ is_origin_reasoning
    /\ out = <<Ev("content", ThinkOpen), Ev("reasoning", ThinkOpen),
               Ev("content", ThinkClose)>>

(***************************************************************************)
(* C24: on a source that raises no transport error the sequence ends       *)
(* normally, and only in one of two ways: at the first [DONE] line         *)
(* received, or, when the lines received hold no [DONE], at the            *)
(* exhaustion of the source.                                               *)
(***************************************************************************)
\* the lines of the bytes received so far, whatever the chunking
LinesReceived == SplitLines(DecodeChars(Flatten(chunks)))

DoneReceived == \E k \in 1..Len(LinesReceived) : IsDoneLine(LinesReceived[k])

C24_EndsAtDoneOrExhaustion ==
    st # "transport_error" =>
        /\ st \in {"open", "done", "closed"}
        /\ st = "done" => DoneReceived
        /\ st = "closed" => ~DoneReceived
        /\ st = "open" => ~DoneReceived

(***************************************************************************)
(* C25: in tag-inference mode a marker cut across two consecutive          *)
(* fragments, neither holding the whole marker, causes no transition: a    *)
(* cut "<think>" met with insideThink false leaves it false and both       *)
(* fragments are yielded as Content; a cut "</think>" met with insideThink *)
(* true leaves it true, both fragments are yielded as Reasoning and no     *)
(* boundary event is yielded.                                              *)
(***************************************************************************)
\* marker m lies across the border of fragments fa and fb
SplitAcross(m, fa, fb) ==
    ~Contains(fa, m) /\ ~Contains(fb, m) /\ Contains(fa \o fb, m)

\* the content text of the one delta line that chunk c is
FragmentOf(c) == DeltasOf(c)[1].c.s

C25_SplitMarkerNotDetected ==
    ( /\ ~is_origin_reasoning
      /\ Len(chunks) >= 2
      /\ IsOneDeltaLine(chunks[Len(chunks) - 1])
      /\ IsOneDeltaLine(chunks[Len(chunks)]) ) =>
        LET n == Len(chunks)
            fa == FragmentOf(chunks[n - 1])
            fb == FragmentOf(chunks[n])
            before == RunChunks(FALSE, Fresh, SubSeq(chunks, 1, n - 2))
            last2 == SubSeq(out, Len(before.ev) + 1, Len(out))
        IN /\ (~before.inside /\ SplitAcross(ThinkOpen, fa, fb)) =>
                 /\ last2 = <<Ev("content", fa), Ev("content", fb)>>
                 /\ ~pre.inside
                 /\ ~is_collecting_think
           /\ (before.inside /\ SplitAcross(ThinkClose, fa, fb)) =>
                 /\ last2 = <<Ev("reasoning", fa), Ev("reasoning", fb)>>
                 /\ pre.inside
                 /\ is_collecting_think

C25_Witness ==
    /\ ~is_origin_reasoning
    /\ Len(chunks) = 3
    /\ IsOneDeltaLine(chunks[2])
    /\ IsOneDeltaLine(chunks[3])
    /\ SplitAcross(ThinkClose, FragmentOf(chunks[2]), FragmentOf(chunks[3]))
    /\ is_collecting_think
    /\ out = <<Ev("reasoning", ThinkOpen), Ev("reasoning", TxtCloseHead),
               Ev("reasoning", TxtMarkTail)>>

\* ---------------------------------------------------------------------------
\* C26: verify_api_key lets a request through only when the Authorization
\* header is present and its value, once every "Bearer " is removed and the
\* surrounding whitespace stripped, equals ALLOW_API_KEY; every other request
\* to a protected endpoint (root, chat_completions) is answered 401 and its
\* handler does not run.
\* ---------------------------------------------------------------------------
\* the headers of AuthHeaders whose value reduces to the key, written out
AcceptedHeaders ==
    { Str(<<"s", "k">>),
      Str(<<"B", "e", "a", "r", "e", "r", " ", "s", "k">>),
      Str(<<"B", "e", "a", "r", "e", "r", " ", " ", "s", "k", " ", "\t">>),
      Str(<<"B", "e", "a", "r", "e", "r", " ", "B", "e", "a", "r", "e", "r", " ", "s", "k">>),
      Str(<<"s", "k", " ", "B", "e", "a", "r", "e", "r", " ">>),
      Str(<<"s", "B", "e", "a", "r", "e", "r", " ", "k">>) }

C26_OnlyKeyedRequestsPass ==
    \A i \in 1..Len(served) :
        Protected(served[i].endpoint) =>
            IF served[i].authorization \in AcceptedHeaders
            THEN served[i].handler_ran /\ served[i].status_code # 401
            ELSE ~served[i].handler_ran /\ served[i].status_code = 401

C26_Witness ==
    \E i, j \in 1..Len(served) :
        /\ served[i].endpoint = "/v1/chat/completions"
        /\ served[i].authorization =
               Str(<<"B", "e", "a", "r", "e", "r", " ", " ", "s", "k", " ", "\t">>)
        /\ served[i].handler_ran
        /\ served[j].endpoint = "/"
        /\ served[j].authorization =
               Str(<<"B", "e", "a", "r", "B", "e", "a", "r", "e", "r", " ", "e", "r", " ", "s", "k">>)
        /\ ~served[j].handler_ran
        /\ served[j].status_code = 401

\* ---------------------------------------------------------------------------
\* C27: with YAML configuration enabled and every save succeeding, after any
\* sequence of update_model_mapping and delete_model_mapping calls the
\* manager's get_model_mappings() is the map obtained by applying the
\* operations in order to the initial mappings, and AppConfig's
\* get_model_mapping(name) agrees with it: "" for the empty name, the mapped
\* model for an alias of the map, the name itself otherwise.
\* ---------------------------------------------------------------------------
LookupNames == Aliases \cup ModelNames

RefLookup(ref, name) ==
    IF name = "" THEN ""
    ELSE IF \E p \in ref : p[1] = name
         THEN (CHOOSE p \in ref : p[1] = name)[2]
         ELSE name

C27_MappingsFollowOperations ==
    (use_yaml_config /\ applied.clean) =>
        /\ AsMap(get_model_mappings(manager_data)) = applied.map
        /\ \A name \in LookupNames :
               get_model_mapping(app_data, name) = RefLookup(applied.map, name)

C27_Witness ==
    /\ use_yaml_config /\ applied.clean /\ ~shared
    /\ applied.calls = 3
    /\ lastCall.op = "delete_model_mapping" /\ lastCall.ret
    /\ applied.map = { <<"a", "m2">> }
    /\ get_model_mapping(app_data, "a") = "m2"
    /\ get_model_mapping(app_data, "b") = "b"
    /\ get_model_mapping(app_data, "") = ""
    /\ get_model_mapping(lastCall.app_before, "b") = "m1"

\* ---------------------------------------------------------------------------
\* C30: whenever update_model_mapping, delete_model_mapping or update_config
\* returns False, ConfigManager.get_config() and AppConfig.get_config() are
\* the same as before the call.
\* ---------------------------------------------------------------------------
C30_FailedCallChangesNothing ==
    (lastCall.op # "none" /\ ~lastCall.ret) =>
        /\ ConfigEq(manager_data, lastCall.manager_before)
        /\ ConfigEq(app_data, lastCall.app_before)

\* ---------------------------------------------------------------------------
\* C28: in tag-inference mode the events yielded and the new insideThink
\* depend on the fragment and the current insideThink only, never on the
\* buffer or on the result of _process_think_tag_content: the same chunk met
\* with another buffer, and the same stream started with another buffer,
\* yield the same events and leave the same insideThink.
\* ---------------------------------------------------------------------------
OtherBuffers ==
    { Empty, ThinkOpen, ThinkClose, TxtBoth, ThinkOpen \o TxtStepOne, TxtAnswer }

C28_BufferNeverDecides ==
    (~is_origin_reasoning /\ chunks # <<>>) =>
        \A b \in OtherBuffers :
            LET step == ProcessChunk(FALSE, [inside |-> pre.inside, acc |-> b],
                                     LastChunk)
                run  == RunChunks(FALSE, [inside |-> FALSE, acc |-> b], chunks)
            IN /\ step.ev = NewEvents
               /\ step.inside = is_collecting_think
               /\ run.ev = out
               /\ run.inside = is_collecting_think

C28_Witness ==
    /\ ~is_origin_reasoning
    /\ Len(chunks) = 3
    /\ \A i \in 1..3 : IsOneDeltaLine(chunks[i])
    /\ FragmentsOf(DeltasOf(Flatten(chunks))) = <<ThinkOpen, TxtStepOne, ThinkClose>>
    /\ pre.acc = ThinkOpen \o TxtStepOne
    /\ pre.inside
    /\ NewEvents = <<Ev("reasoning", ThinkClose), Ev("content", Empty)>>
    /\ ~is_collecting_think
    /\ accumulated_content = Empty

\* ---------------------------------------------------------------------------
\* C29: in native mode each delta yields at most one event, every event has
\* non-empty text, and reasoning_content takes precedence: a delta carrying
\* both a non-empty reasoning_content and a non-empty content yields only
\* (reasoning, reasoning_content); its content is in no event.
\* ---------------------------------------------------------------------------
BothFields(d) == Truthy(d.rc) /\ Truthy(d.c)

C29_NativeOneEventReasoningFirst ==
    is_origin_reasoning =>
        /\ \A i \in 1..Len(out) : out[i].text # Empty
        /\ (chunks # <<>> /\ IsDeltaLines(LastChunk)) =>
               /\ Len(NewEvents) <= Len(DeltasOf(LastChunk))
               /\ IsOneDeltaLine(LastChunk) /\ BothFields(DeltasOf(LastChunk)[1]) =>
                      /\ NewEvents = <<Ev("reasoning", DeltasOf(LastChunk)[1].rc.s)>>
                      /\ \A i \in 1..Len(NewEvents) :
                             /\ NewEvents[i].type # "content"
                             /\ NewEvents[i].text # DeltasOf(LastChunk)[1].c.s

C29_Witness ==
    /\ is_origin_reasoning
    /\ Len(chunks) = 2
    /\ IsOneDeltaLine(LastChunk)
    /\ DeltasOf(LastChunk)[1] = Delta(Str(TxtBecause), Str(Txt42))
    /\ NewEvents = <<Ev("reasoning", TxtBecause)>>
    /\ out = <<Ev("content", Txt42), Ev("reasoning", TxtBecause)>>

\* ---------------------------------------------------------------------------
\* C31: in the output of one tag-inference call, once the phase-boundary
\* event ("content", "") has been yielded no reasoning event is yielded
\* afterwards, whatever the fragments are, a later fragment holding "<think>"
\* again included.
\* ---------------------------------------------------------------------------
C31_NoReasoningAfterBoundary ==
    ~is_origin_reasoning =>
        \A i, j \in 1..Len(out) :
            (i < j /\ out[i] = Ev("content", Empty)) => out[j].type # "reasoning"

=============================================================================
